---------------------------- MODULE Spec2Model ----------------------------
(***************************************************************************)
(* A model of the three-body playground: the host component                *)
(* ThreeBodyScene (scenario, key, bodies, the body-initialising effect,    *)
(* the buttons), the App shell around it, and SimulationLoop's per-frame   *)
(* callback (sub-stepped velocity-Verlet, force evaluator, collision       *)
(* resolver, visual sync).                                                 *)
(*                                                                         *)
(* Numbers.  The code computes in IEEE doubles.  The model computes on a   *)
(* fixed-point grid: every real quantity x (a coordinate, a velocity or    *)
(* acceleration component, a mass, a radius, G, an id) is the integer      *)
(* x * U with U = 10, so every decimal literal of the presets with one     *)
(* fractional digit is exact.  Where the code divides or takes a root,     *)
(* the model rounds to the nearest grid value, symmetrically about zero    *)
(* (RDiv, Sqrt), as IEEE rounding is.  Time alone has its own unit: the    *)
(* frame delta 0.016 is FRAME_DT = 2 (hundredths, rounded), so that one    *)
(* sub-step at the default time scale moves a body by a whole number of    *)
(* grid cells; this amounts to running the code at a larger time scale.    *)
(* Math.random() is a nondeterministic choice from a small set.            *)
(***************************************************************************)
EXTENDS Integers, Sequences, FiniteSets, TLC

(***************************** fixed point ********************************)

\* The grid: a real x is the integer x * U.
U == 10

\* The scale of a reciprocal mass (1 / mass), which is far below 1 / U.
INV == 1000

Abs(a) == IF a < 0 THEN -a ELSE a

Sign(a) == IF a < 0 THEN -1 ELSE IF a > 0 THEN 1 ELSE 0

\* a / b for b > 0, rounded to the nearest integer, halves away from zero.
RDiv(a, b) == Sign(a) * ((2 * Abs(a) + b) \div (2 * b))

RECURSIVE SqrtSearch(_, _, _)
\* The largest r in lo..hi with r * r <= n (bisection).
SqrtSearch(n, lo, hi) ==
    IF lo >= hi THEN lo
    ELSE LET mid == (lo + hi + 1) \div 2
         IN  IF mid * mid <= n THEN SqrtSearch(n, mid, hi)
             ELSE SqrtSearch(n, lo, mid - 1)

\* Math.sqrt on integers: the nearest integer to the square root of n >= 0.
Sqrt(n) ==
    LET r == SqrtSearch(n, 0, IF n < 10000 THEN 100
                              ELSE IF n < 1000000 THEN 1000 ELSE 46340)
    IN  IF n - r * r > r THEN r + 1 ELSE r

(******************************* Vector3 **********************************)

Vec(x, y, z) == <<x, y, z>>

ZeroVec == Vec(0, 0, 0)

VAdd(a, b) == Vec(a[1] + b[1], a[2] + b[2], a[3] + b[3])

VSub(a, b) == Vec(a[1] - b[1], a[2] - b[2], a[3] - b[3])

\* multiplyScalar by an integer factor
VScale(a, k) == Vec(a[1] * k, a[2] * k, a[3] * k)

\* divideScalar by an integer d > 0, each component rounded
VDiv(a, d) == Vec(RDiv(a[1], d), RDiv(a[2], d), RDiv(a[3], d))

\* the integer dot product (in units of 1 / U^2)
Dot(a, b) == a[1] * b[1] + a[2] * b[2] + a[3] * b[3]

\* Vector3.lengthSq, in units of 1 / U^2
LengthSq(a) == Dot(a, a)

\* Vector3.length, in grid units
Length(a) == Sqrt(LengthSq(a))

(***************************** Math.random ********************************)

\* Math.random() returns r / RAND for an integer r in 0 .. RAND - 1.
RAND == 1000

\* The tape of a handler that makes no call of Math.random().
NoCalls == <<500>>

\* The random tapes: each is the sequence of values the calls of
\* Math.random() made by one handler return, read cyclically.
\*   1: every call returns 0.5 (all bodies coincide, zero offsets);
\*   2: a chaotic pair that overlaps and approaches head-on along x;
\*   3: a chaotic pair that overlaps and is already separating, off axis;
\*      its first call returns 0.
Tapes ==
    { NoCalls,
      <<500, 500, 500, 500, 900, 500, 500,
        500, 520, 500, 500, 100, 500, 500,
        0, 900, 100, 800, 500, 500, 500>>,
      <<0, 500, 500, 500, 200, 100, 500,
        800, 510, 514, 500, 800, 900, 500,
        999, 100, 900, 200, 500, 500, 500>> }

\* The k-th value (k >= 1) of tape t.
Rnd(t, k) == t[((k - 1) % Len(t)) + 1]

\* lo + Math.random() * span on the grid (lo and span in grid units).
RndRange(t, k, lo, span) == lo + ((Rnd(t, k) * span) \div RAND)

\* new Vector3(Math.random() - 0.5, Math.random() - 0.5, Math.random() - 0.5),
\* drawn from calls k, k + 1, k + 2.
RndHalfVec(t, k) ==
    Vec(RndRange(t, k, -5, U), RndRange(t, k + 1, -5, U), RndRange(t, k + 2, -5, U))

(******************************* bodies ***********************************)

\* An optional field that is absent (radius?, collisionRadius?).
Undefined == -1

\* x || d for an optional number: d when x is undefined or 0.
OrElse(x, d) == IF x = Undefined \/ x = 0 THEN d ELSE x

\* x ?? 0 for an optional number.
OrZero(x) == IF x = Undefined THEN 0 ELSE x

SUB_STEPS == 8

ScenarioType == {"figure8", "2body", "chaotic", "galaxy", "ternary"}

\* The base figure-eight positions, as integers times 10^-8.
FIGURE8_BASE_POSITIONS ==
    << Vec(-97000436, 0, 24308753), Vec(97000436, 0, -24308753), Vec(0, 0, 0) >>

\* The base figure-eight velocities, as integers times 10^-9.
FIGURE8_BASE_VELOCITIES ==
    << Vec(466203685, 0, 432365730), Vec(466203685, 0, 432365730),
       Vec(-932407370, 0, -864731460) >>

FIGURE8_SCALE == 6

\* FIGURE8_BASE_POSITIONS and FIGURE8_BASE_VELOCITIES are arrays of Vector3
\* objects made once, when the module is loaded, and Vector3 is mutable: these
\* are the components the objects hold now.
VARIABLES basePositions, baseVelocities

moduleVars == <<basePositions, baseVelocities>>

\* The velocity scale 1 (times 10^3): the velocities left as the base has them.
FIGURE8_VELOCITY_UNSCALED == Sqrt(1000000)

\* Math.sqrt(FIGURE8_SCALE) times 10^3; FIGURE8_VELOCITY_SCALE is its inverse.
FIGURE8_VELOCITY_SCALE == Sqrt(FIGURE8_SCALE * 1000000)

COLORS == <<"cyan", "magenta", "gold", "white", "orange", "purple", "green">>

\* COLORS[keys[Math.floor(Math.random() * keys.length)]], from call k.
getRandomColor(t, k) == COLORS[((Rnd(t, k) * Len(COLORS)) \div RAND) + 1]

\* A body descriptor (Omit<BodyState, "ref">) or a live body.
Body(id, mass, position, velocity, color, radius, collisionRadius) ==
    [id |-> id, mass |-> mass, position |-> position, velocity |-> velocity,
     color |-> color, radius |-> radius, collisionRadius |-> collisionRadius]

(*************************** scenario generator ***************************)

\* The number of stars of the galaxy preset the model generates (the code
\* generates 100).
MaxStars == 1

\* Math.cos and Math.sin of the angle Math.random() * Math.PI * 2, on the
\* grid, for the angle rounded to a multiple of PI / 4.
CosTable == <<10, 7, 0, -7, -10, -7, 0, 7>>

SinTable == <<0, 7, 10, 7, 0, -7, -10, -7>>

Octant(r) == (RDiv(r * 8, RAND) % 8) + 1

\* One body of the chaotic preset; its seven calls start at call k.
ChaoticBody(t, k, id, color) ==
    Body(id,
         RndRange(t, k, 100, 50),
         Vec(RndRange(t, k + 1, -150, 300), RndRange(t, k + 2, -150, 300),
             RndRange(t, k + 3, -150, 300)),
         Vec(RndRange(t, k + 4, -5, 10), RndRange(t, k + 5, -5, 10),
             RndRange(t, k + 6, -5, 10)),
         color, Undefined, Undefined)

\* Star i (from 0) of the galaxy preset; its six calls start at call 6 i + 1.
GalaxyStar(t, i) ==
    LET k     == 6 * i + 1
        o     == Octant(Rnd(t, k))
        dist  == RndRange(t, k + 1, 200, 400)
        speed == Sqrt(RDiv(3 * 500 * U * U * U, dist))
    IN  Body((i + 1) * U,
             RndRange(t, k + 2, 1, 5),
             Vec(RDiv(CosTable[o] * dist, U), RDiv((Rnd(t, k + 3) - 500) * 2 * U, RAND),
                 RDiv(SinTable[o] * dist, U)),
             Vec(RDiv(-SinTable[o] * speed, U), 0, RDiv(CosTable[o] * speed, U)),
             getRandomColor(t, k + 4),
             RndRange(t, k + 5, 2, 2),
             Undefined)

\* getInitialBodies(scenario), its calls of Math.random() read from tape t.
getInitialBodies(scenario, t) ==
    CASE scenario = "2body" ->
           << Body(1 * U, 20 * U, Vec(150, 0, 0), Vec(0, 8, 0), "cyan", Undefined, Undefined),
              Body(2 * U, 20 * U, Vec(-150, 0, 0), Vec(0, -8, 0), "magenta", Undefined,
                   Undefined) >>
      [] scenario = "chaotic" ->
           << ChaoticBody(t, 1, 1 * U, "cyan"), ChaoticBody(t, 8, 2 * U, "magenta"),
              ChaoticBody(t, 15, 3 * U, "gold") >>
      [] scenario = "ternary" ->
           << Body(1 * U, 100 * U, Vec(0, 0, 0), Vec(0, 0, 0), "gold", 20, Undefined),
              Body(2 * U, 10 * U, Vec(300, 0, 0), Vec(0, 0, 25), "cyan", 10, Undefined),
              Body(3 * U, 1 * U, Vec(330, 0, 0), Vec(0, 0, 25 + 15), "white", 4,
                   Undefined) >>
      [] scenario = "galaxy" ->
           << Body(0, 500 * U, Vec(0, 0, 0), Vec(0, 0, 0), "purple", 30, Undefined) >>
           \o [i \in 1 .. MaxStars |-> GalaxyStar(t, i - 1)]
      [] OTHER ->
           [idx \in 1 .. Len(basePositions) |->
              Body(idx * U, 1 * U,
                   VDiv(VScale(basePositions[idx], FIGURE8_SCALE), 10000000),
                   VDiv(baseVelocities[idx], FIGURE8_VELOCITY_SCALE * 100000),
                   COLORS[idx], Undefined, 5)]

(***************************** force evaluator ****************************)

\* const softening = 2.0
softening == 20

\* The three values of Math.random() - 0.5 that replace a zero displacement
\* between bodies i and j of n: each pair reads its own calls of the tape.
DegenerateDiff(t, i, j, n) == RndHalfVec(t, 3 * ((i - 1) * n + (j - 1)) + 1)

\* diff.normalize().multiplyScalar(len): diff rescaled to length len; a zero
\* diff stays zero (normalize divides by length() || 1).
Rescale(diff, dist, len) ==
    IF dist = 0 THEN diff
    ELSE Vec(RDiv(diff[1] * len, dist), RDiv(diff[2] * len, dist), RDiv(diff[3] * len, dist))

\* diff * (gm / Math.pow(x, 1.5)) on the grid, x = distSq + softening^2 in
\* units of 1 / U^2 and gm = gravity * mass in units of 1 / U^2.  The
\* quotient is formed in one rounding while x^1.5 fits the integers, and in
\* two for a far pair.
ScaleByInverseCube(diff, gm, x) ==
    LET s == Sqrt(x)
    IN  IF x <= 1000000
        THEN LET distCubed == (x * s) \div U
             IN  Vec(RDiv(diff[1] * gm, distCubed), RDiv(diff[2] * gm, distCubed),
                     RDiv(diff[3] * gm, distCubed))
        ELSE LET q == RDiv(gm * U, s)
             IN  Vec(RDiv(diff[1] * q, x), RDiv(diff[2] * q, x), RDiv(diff[3] * q, x))

\* The term body j adds to the acceleration of body bodyIdx (the body of the
\* loop of calcAcceleration).
Contribution(bodies, bodyIdx, j, gravity, collisionsEnabled, t) ==
    LET bodyA    == bodies[bodyIdx]
        bodyB    == bodies[j]
        diff0    == VSub(bodyB.position, bodyA.position)
        diff1    == IF LengthSq(diff0) = 0
                    THEN DegenerateDiff(t, bodyIdx, j, Len(bodies))
                    ELSE diff0
        distSq1  == LengthSq(diff1)
        dist1    == Sqrt(distSq1)
        minSeparation == OrZero(bodyA.collisionRadius) + OrZero(bodyB.collisionRadius)
        clamp    == collisionsEnabled /\ dist1 < minSeparation /\ minSeparation > 0
        diff     == IF clamp THEN Rescale(diff1, dist1, minSeparation) ELSE diff1
        distSq   == IF clamp THEN minSeparation * minSeparation ELSE distSq1
    IN  ScaleByInverseCube(diff, gravity * bodyB.mass, distSq + softening * softening)

RECURSIVE AccFrom(_, _, _, _, _, _)
\* The sum of the terms of bodies j, j + 1, ..., skipping bodyIdx itself.
AccFrom(bodies, bodyIdx, j, gravity, collisionsEnabled, t) ==
    IF j > Len(bodies) THEN ZeroVec
    ELSE VAdd(IF j = bodyIdx THEN ZeroVec
              ELSE Contribution(bodies, bodyIdx, j, gravity, collisionsEnabled, t),
              AccFrom(bodies, bodyIdx, j + 1, gravity, collisionsEnabled, t))

\* calcAcceleration(bodyIdx, targetVec): the value left in targetVec.
calcAcceleration(bodies, bodyIdx, gravity, collisionsEnabled, t) ==
    AccFrom(bodies, bodyIdx, 1, gravity, collisionsEnabled, t)

(**************************** collision resolver **************************)

\* const restitution = 0.8
restitution == 8

\* dist with no fallback for a zero distance.
OrItself(dist) == dist

\* dist || 1: the divisor of collisionDiff.clone().divideScalar(dist || 1).
OrOne(dist) == IF dist = 0 THEN 1 ELSE dist

\* The inverse mass of a body of mass 1, whatever the body's mass.
InverseMassOfOne(mass) == INV

\* 1 / mass, in units of 1 / INV.
InverseMass(mass) == RDiv(INV * U, mass)

\* The inner loop with the positional correction shared out by mass (each body
\* moved by the other's share of the total mass) and no impulse.
ResolvePairByMass(bodies, i, j, t) ==
    LET bodyA  == bodies[i]
        bodyB  == bodies[j]
        diff0  == VSub(bodyB.position, bodyA.position)
        dist0  == Length(diff0)
        collisionDiff == IF dist0 = 0 THEN DegenerateDiff(t, i, j, Len(bodies)) ELSE diff0
        dist   == IF dist0 = 0 THEN Length(collisionDiff) ELSE dist0
        minDist == OrZero(bodyA.collisionRadius) + OrZero(bodyB.collisionRadius)
        collisionNormal == VDiv(VScale(collisionDiff, U), OrOne(dist))
        penetration == minDist - dist
        total  == bodyA.mass + bodyB.mass
    IN  IF dist >= minDist THEN bodies
        ELSE [bodies EXCEPT
                ![i].position = VSub(bodyA.position,
                                     VDiv(VScale(collisionNormal, penetration * bodyB.mass),
                                          total * U)),
                ![j].position = VAdd(bodyB.position,
                                     VDiv(VScale(collisionNormal, penetration * bodyA.mass),
                                          total * U))]

\* The body of the inner loop of resolveCollisions for the pair (i, j), i < j:
\* the body list after the pair has been processed.
ResolvePair(bodies, i, j, t) ==
    LET bodyA  == bodies[i]
        bodyB  == bodies[j]
        diff0  == VSub(bodyB.position, bodyA.position)
        dist0  == Length(diff0)
        collisionDiff == IF dist0 = 0 THEN DegenerateDiff(t, i, j, Len(bodies)) ELSE diff0
        dist   == IF dist0 = 0 THEN Length(collisionDiff) ELSE dist0
        minDist == OrZero(bodyA.collisionRadius) + OrZero(bodyB.collisionRadius)
        collisionNormal == VDiv(VScale(collisionDiff, U), OrOne(dist))
        penetration == minDist - dist
        separationVec == VDiv(VScale(collisionNormal, penetration), 2 * U)
        relativeVelocity == VSub(bodyA.velocity, bodyB.velocity)
        velAlongNormal == RDiv(Dot(relativeVelocity, collisionNormal), U)
        impulseMag == RDiv(-(U + restitution) * velAlongNormal * INV,
                           U * (InverseMass(bodyA.mass) + InverseMass(bodyB.mass)))
        impulseVec == VDiv(VScale(collisionNormal, impulseMag), U)
        velA   == IF velAlongNormal < 0
                  THEN VSub(bodyA.velocity,
                            VDiv(VScale(impulseVec, InverseMass(bodyA.mass)), INV))
                  ELSE bodyA.velocity
        velB   == IF velAlongNormal < 0
                  THEN VAdd(bodyB.velocity,
                            VDiv(VScale(impulseVec, InverseMass(bodyB.mass)), INV))
                  ELSE bodyB.velocity
    IN  IF dist >= minDist THEN bodies
        ELSE [bodies EXCEPT
                ![i] = [bodyA EXCEPT !.position = VSub(bodyA.position, separationVec),
                                     !.velocity = velA],
                ![j] = [bodyB EXCEPT !.position = VAdd(bodyB.position, separationVec),
                                     !.velocity = velB]]

RECURSIVE ResolveAdjacent(_, _, _, _)
\* The two loops with the inner one stopped after its first pair: only the
\* pairs (i, i + 1) are examined.
ResolveAdjacent(bodies, i, j, t) ==
    IF i > Len(bodies) THEN bodies
    ELSE IF j > Len(bodies) \/ j > i + 1 THEN ResolveAdjacent(bodies, i + 1, i + 2, t)
    ELSE ResolveAdjacent(ResolvePair(bodies, i, j, t), i, j + 1, t)

RECURSIVE ResolveFrom(_, _, _, _)
\* The two nested loops of resolveCollisions, from the pair (i, j) on.
ResolveFrom(bodies, i, j, t) ==
    IF i > Len(bodies) THEN bodies
    ELSE IF j > Len(bodies) THEN ResolveFrom(bodies, i + 1, i + 2, t)
    ELSE ResolveFrom(ResolvePair(bodies, i, j, t), i, j + 1, t)

\* resolveCollisions(): the body list it leaves.
resolveCollisions(bodies, collisionsEnabled, t) ==
    IF ~collisionsEnabled THEN bodies ELSE ResolveFrom(bodies, 1, 2, t)

(******************************* integrator *******************************)

\* The frame delta 0.016 of "const dt = (0.016 * timeScale) / SUB_STEPS", in
\* hundredths (rounded up from 1.6).
FRAME_DT == 2

\* const dt = (0.016 * timeScale) / SUB_STEPS
Dt(timeScale) == RDiv(FRAME_DT * timeScale, SUB_STEPS)

RECURSIVE EnsureSlots(_, _, _)
\* acceleration.get(id): the map is a function from the ids it holds.
\* bodies.forEach(b => { if (!acceleration.has(b.id)) acceleration.set(b.id, new Vector3()) }),
\* from body i on.
EnsureSlots(bodies, acceleration, i) ==
    IF i > Len(bodies) THEN acceleration
    ELSE EnsureSlots(bodies,
                     IF bodies[i].id \in DOMAIN acceleration THEN acceleration
                     ELSE acceleration @@ (bodies[i].id :> ZeroVec),
                     i + 1)

RECURSIVE InitialFrom(_, _, _, _, _, _)
\* for (i ...) { acc = acceleration.get(bodies[i].id); if (acc.lengthSq() === 0)
\* calcAcceleration(i, acc) }, from body i on.
InitialFrom(bodies, acceleration, i, gravity, collisionsEnabled, t) ==
    IF i > Len(bodies) THEN acceleration
    ELSE LET id == bodies[i].id
         IN  InitialFrom(bodies,
                         IF LengthSq(acceleration[id]) = 0
                         THEN [acceleration EXCEPT
                                 ![id] = calcAcceleration(bodies, i, gravity,
                                                          collisionsEnabled, t)]
                         ELSE acceleration,
                         i + 1, gravity, collisionsEnabled, t)

\* The accelerations the first half-kick of a sub-step reads: the map after
\* the forEach and the first loop of the sub-step.
InitialAccelerations(bodies, acceleration, gravity, collisionsEnabled, t) ==
    InitialFrom(bodies, EnsureSlots(bodies, acceleration, 1), 1, gravity,
                collisionsEnabled, t)

\* body.velocity.addScaledVector(acc, 0.5 * dt)
HalfKick(velocity, acc, dt) == VAdd(velocity, VDiv(VScale(acc, dt), 2))

\* The body of the second loop with the drift made before the half-kick: the
\* position moves with the velocity of the last sub-step.
KickDriftStale(body, acc, dt) ==
    [body EXCEPT !.velocity = HalfKick(body.velocity, acc, dt),
                 !.position = VAdd(body.position, VScale(body.velocity, dt))]

\* The body of the second loop putting a new object in the list, made of the
\* fields the integrator reads.
KickDriftRebuilt(body, acc, dt) ==
    LET v == HalfKick(body.velocity, acc, dt)
    IN  Body(body.id, body.mass, VAdd(body.position, VScale(v, dt)), v, body.color,
             Undefined, body.collisionRadius)

\* The body of the second loop for one body: the half-kick, then the drift
\* with the velocity just kicked.
KickDrift(body, acc, dt) ==
    LET v == HalfKick(body.velocity, acc, dt)
    IN  [body EXCEPT !.velocity = v, !.position = VAdd(body.position, VScale(v, dt))]

RECURSIVE KickDriftFrom(_, _, _, _)
\* The second loop over the body list, from body i on.
KickDriftFrom(bodies, acceleration, dt, i) ==
    IF i > Len(bodies) THEN bodies
    ELSE KickDriftFrom([bodies EXCEPT
                          ![i] = KickDrift(bodies[i], acceleration[bodies[i].id], dt)],
                       acceleration, dt, i + 1)

RECURSIVE RecomputeFrom(_, _, _, _, _, _)
\* for (i ...) calcAcceleration(i, acceleration.get(bodies[i].id)), from i on.
RecomputeFrom(bodies, acceleration, i, gravity, collisionsEnabled, t) ==
    IF i > Len(bodies) THEN acceleration
    ELSE RecomputeFrom(bodies,
                       [acceleration EXCEPT
                          ![bodies[i].id] = calcAcceleration(bodies, i, gravity,
                                                             collisionsEnabled, t)],
                       i + 1, gravity, collisionsEnabled, t)

RECURSIVE SecondKickFrom(_, _, _, _)
\* The fourth loop: the second half-kick of every body, from body i on.
SecondKickFrom(bodies, acceleration, dt, i) ==
    IF i > Len(bodies) THEN bodies
    ELSE SecondKickFrom([bodies EXCEPT
                           ![i].velocity = HalfKick(bodies[i].velocity,
                                                    acceleration[bodies[i].id], dt)],
                        acceleration, dt, i + 1)

\* One iteration of "for (let step = 0; step < SUB_STEPS; step++)": the body
\* list and the acceleration map it leaves.
SubStepResult(bodies, acceleration, gravity, timeScale, collisionsEnabled, t) ==
    LET dt   == Dt(timeScale)
        acc1 == InitialAccelerations(bodies, acceleration, gravity, collisionsEnabled, t)
        b1   == KickDriftFrom(bodies, acc1, dt, 1)
        acc2 == RecomputeFrom(b1, acc1, 1, gravity, collisionsEnabled, t)
        b2   == SecondKickFrom(b1, acc2, dt, 1)
    IN  [bodies |-> resolveCollisions(b2, collisionsEnabled, t), acceleration |-> acc2]

(**************************** the host component **************************)

\* How many host events (button clicks, control changes) a run makes.
MaxOps == 3

\* How many frames a run renders.
MaxTicks == 2

\* The values the Leva panel is set to (gravity on the grid).
Gravities == {30, 50}

TimeScales == {0, 4}

\* The options of "Camera Focus": None, Body 1, Body 2, Body 3 (ids on the grid).
FocusOptions == {0, 1 * U, 2 * U, 3 * U}

VARIABLES
    started,          \* App: useState(false)
    scenario,         \* ThreeBodyScene: useState<ScenarioType>("figure8")
    key,              \* useState(0), the key of the Canvas
    bodies,           \* useState<BodyState[]>([]), as rendered
    shouldPerturb,    \* useRef(false)
    effectPending,    \* the body-initialising effect is scheduled and its
                      \* setBodies has not been committed yet
    queued,           \* the bodies added while that update was pending
    gravity, timeScale, focusedBodyId,   \* useControls
    acceleration,     \* SimulationLoop: useMemo(() => new Map<number, Vector3>())
    step,             \* the sub-steps the running frame callback has made
                      \* (0: no frame callback is running)
    meshPosition,     \* body.ref.current.position, by index in bodies
    cameraTarget,     \* controlsRef.current.target
    generatedBy,      \* the scenario whose preset produced bodies ("none": no list yet)
    ticks, ops        \* the frames rendered and the host events made

vars == <<started, scenario, key, bodies, shouldPerturb, effectPending, queued,
          gravity, timeScale, focusedBodyId, acceleration, step, meshPosition,
          cameraTarget, generatedBy, ticks, ops, basePositions, baseVelocities>>

\* The state of ThreeBodyScene and of its Canvas
sceneVars == <<scenario, key, bodies, shouldPerturb, effectPending, queued,
               acceleration, meshPosition, cameraTarget, generatedBy>>

controlVars == <<gravity, timeScale, focusedBodyId>>

\* collisionsEnabled={scenario !== "figure8"}
CollisionsEnabled == scenario # "figure8"

\* The empty Map.
EmptyMap == [id \in {} |-> ZeroVec]

Positions(bs) == [i \in 1 .. Len(bs) |-> bs[i].position]

Velocities(bs) == [i \in 1 .. Len(bs) |-> bs[i].velocity]

\* The hooks of a ThreeBodyScene that is hidden and shown again without being
\* unmounted: they keep their values.
SceneKept ==
    UNCHANGED <<scenario, key, bodies, shouldPerturb, queued, acceleration,
                meshPosition, cameraTarget, generatedBy>>

\* The initial values of the hooks of ThreeBodyScene and of its Canvas.
SceneInitial ==
    /\ scenario' = "figure8"
    /\ key' = 0
    /\ bodies' = << >>
    /\ shouldPerturb' = FALSE
    /\ queued' = << >>
    /\ acceleration' = EmptyMap
    /\ meshPosition' = << >>
    /\ cameraTarget' = ZeroVec
    /\ generatedBy' = "none"

Init ==
    /\ started = FALSE
    /\ scenario = "figure8"
    /\ key = 0
    /\ bodies = << >>
    /\ shouldPerturb = FALSE
    /\ effectPending = FALSE
    /\ queued = << >>
    /\ gravity = 30
    /\ timeScale = 4
    /\ focusedBodyId = 0
    /\ acceleration = EmptyMap
    /\ step = 0
    /\ meshPosition = << >>
    /\ cameraTarget = ZeroVec
    /\ generatedBy = "none"
    /\ ticks = 0
    /\ ops = 0
    /\ basePositions = FIGURE8_BASE_POSITIONS
    /\ baseVelocities = FIGURE8_BASE_VELOCITIES

\* A host event can be handled: the scene is shown and no frame callback runs.
CanHandle == started /\ step = 0 /\ ops < MaxOps

\* LandingPage onStart: setStarted(true); ThreeBodyScene is mounted and its
\* effect runs after the first render.
Start ==
    /\ ~started /\ ops < MaxOps
    /\ started' = TRUE
    /\ SceneInitial
    /\ effectPending' = TRUE
    /\ ops' = ops + 1
    /\ UNCHANGED <<moduleVars, controlVars, step, ticks>>

\* "Exit Simulation": setStarted(false); ThreeBodyScene is unmounted.
Exit ==
    /\ CanHandle
    /\ started' = FALSE
    /\ SceneInitial
    /\ effectPending' = FALSE
    /\ ops' = ops + 1
    /\ UNCHANGED <<moduleVars, controlVars, step, ticks>>

\* onClick={() => setScenario(s)}: a new scenario re-renders the scene and
\* schedules the effect (the same scenario changes nothing).  The effect of an
\* earlier render runs before the effect of this one and leaves
\* shouldPerturb.current false; the list it sets is replaced by this one's.
setScenario(s) ==
    /\ CanHandle
    /\ s # scenario
    /\ scenario' = s
    /\ shouldPerturb' = FALSE
    /\ effectPending' = TRUE
    /\ ops' = ops + 1
    /\ UNCHANGED <<moduleVars, started, key, bodies, queued, controlVars,
                   acceleration, step, meshPosition, cameraTarget, generatedBy, ticks>>

\* The Canvas without the key: it stays mounted, with its SimulationLoop and
\* its OrbitControls, and its meshes are rendered again.
CanvasKept ==
    /\ acceleration' = acceleration
    /\ meshPosition' = Positions(bodies)
    /\ cameraTarget' = cameraTarget

\* The Canvas is keyed by key: a new key unmounts it and mounts a new one, with a
\* new SimulationLoop (an empty acceleration map), new meshes at the bodies'
\* positions and new OrbitControls.
CanvasRemounted ==
    /\ acceleration' = EmptyMap
    /\ meshPosition' = Positions(bodies)
    /\ cameraTarget' = ZeroVec

\* handleReset: setKey(k => k + 1).  As for setScenario, the effect of an
\* earlier render has left shouldPerturb.current false when this one's runs.
handleReset ==
    /\ CanHandle
    /\ key' = key + 1
    /\ shouldPerturb' = FALSE
    /\ effectPending' = TRUE
    /\ CanvasRemounted
    /\ ops' = ops + 1
    /\ UNCHANGED <<moduleVars, started, scenario, bodies, queued, controlVars,
                   step, generatedBy, ticks>>

\* handlePerturb: shouldPerturb.current = true; setKey(k => k + 1)
handlePerturb ==
    /\ CanHandle
    /\ shouldPerturb' = TRUE
    /\ key' = key + 1
    /\ effectPending' = TRUE
    /\ CanvasRemounted
    /\ ops' = ops + 1
    /\ UNCHANGED <<moduleVars, started, scenario, bodies, queued, controlVars, step,
                   generatedBy, ticks>>

\* The newBody with its mass drawn as the components of its velocity are,
\* around zero.
NewBodyMassAroundZero(t) ==
    Body((Len(bodies) + 1) * U + RndRange(t, 1, 0, U),
         RndRange(t, 2, -50, 100),
         Vec(RndRange(t, 3, -200, 400), RndRange(t, 4, -200, 400),
             RndRange(t, 5, -200, 400)),
         Vec(RndRange(t, 6, -5, 10), RndRange(t, 7, -5, 10), RndRange(t, 8, -5, 10)),
         getRandomColor(t, 9),
         RndRange(t, 10, 6, 4),
         5)

\* The newBody of handleAddBody; bodies.length is that of the rendered list.
NewBody(t) ==
    Body((Len(bodies) + 1) * U + RndRange(t, 1, 0, U),
         RndRange(t, 2, 50, 100),
         Vec(RndRange(t, 3, -200, 400), RndRange(t, 4, -200, 400),
             RndRange(t, 5, -200, 400)),
         Vec(RndRange(t, 6, -5, 10), RndRange(t, 7, -5, 10), RndRange(t, 8, -5, 10)),
         getRandomColor(t, 9),
         RndRange(t, 10, 6, 4),
         5)

\* handleAddBody ending with setKey(k => k + 1), as the other two handlers do.
handleAddBodyAndRestart(t) ==
    /\ CanHandle
    /\ bodies' = Append(bodies, NewBody(t))
    /\ queued' = IF effectPending THEN Append(queued, NewBody(t)) ELSE queued
    /\ meshPosition' = Append(meshPosition, NewBody(t).position)
    /\ key' = key + 1
    /\ effectPending' = TRUE
    /\ ops' = ops + 1
    /\ UNCHANGED <<moduleVars, started, scenario, shouldPerturb, controlVars,
                   acceleration, step, cameraTarget, generatedBy, ticks>>

\* handleAddBody: setBodies(prev => [...prev, newBody]).  While the effect's
\* setBodies is pending the updater is applied to the rendered list now and
\* again on top of the new list when that update is committed.
handleAddBody(t) ==
    /\ CanHandle
    /\ bodies' = Append(bodies, NewBody(t))
    /\ queued' = IF effectPending THEN Append(queued, NewBody(t)) ELSE queued
    /\ meshPosition' = Append(meshPosition, NewBody(t).position)
    /\ ops' = ops + 1
    /\ UNCHANGED <<moduleVars, started, scenario, key, shouldPerturb, effectPending, controlVars,
                   acceleration, step, cameraTarget, generatedBy, ticks>>

\* The Leva panel: gravity, timeScale, focusedBodyId.
setGravity(g) ==
    /\ CanHandle
    /\ g # gravity
    /\ gravity' = g
    /\ ops' = ops + 1
    /\ UNCHANGED <<moduleVars, started, sceneVars, timeScale, focusedBodyId, step, ticks>>

setTimeScale(ts) ==
    /\ CanHandle
    /\ ts # timeScale
    /\ timeScale' = ts
    /\ ops' = ops + 1
    /\ UNCHANGED <<moduleVars, started, sceneVars, gravity, focusedBodyId, step, ticks>>

setFocusedBodyId(f) ==
    /\ CanHandle
    /\ f # focusedBodyId
    /\ focusedBodyId' = f
    /\ ops' = ops + 1
    /\ UNCHANGED <<moduleVars, started, sceneVars, gravity, timeScale, step, ticks>>

\* The calls of Math.random() getInitialBodies(scenario) makes.
GeneratorCalls(s) ==
    IF s = "chaotic" THEN 21 ELSE IF s = "galaxy" THEN 6 * MaxStars ELSE 0

\* Math.random() - 0.5, the factor scale left out.
PerturbOffsetUnscaled(t, k, scaleInv) == RDiv((Rnd(t, k) - (RAND \div 2)) * U, RAND)

\* (Math.random() - 0.5) * scale, for scale = 0.1 (scaleInv = 10) or 0.01
\* (scaleInv = 100), on the grid.
PerturbOffset(t, k, scaleInv) == RDiv((Rnd(t, k) - (RAND \div 2)) * U, RAND * scaleInv)

\* The callback of initialData.map in the effect, for the body at index i
\* (from 1): the live body made of descriptor data.
MakeBody(data, i, perturb, t, firstCall) ==
    LET k   == firstCall + 6 * (i - 1)
        pos == IF perturb
               THEN VAdd(data.position,
                         Vec(PerturbOffset(t, k, 10), PerturbOffset(t, k + 1, 10),
                             PerturbOffset(t, k + 2, 10)))
               ELSE data.position
        vel == IF perturb
               THEN VAdd(data.velocity,
                         Vec(PerturbOffset(t, k + 3, 100), PerturbOffset(t, k + 4, 100),
                             PerturbOffset(t, k + 5, 100)))
               ELSE data.velocity
    IN  [data EXCEPT !.position = pos, !.velocity = vel,
                     !.radius = OrElse(data.radius, 8),
                     !.collisionRadius = OrElse(data.collisionRadius, 5)]

\* newBodies of the effect.
NewBodies(s, perturb, t) ==
    LET initialData == getInitialBodies(s, t)
    IN  [i \in 1 .. Len(initialData) |->
           MakeBody(initialData[i], i, perturb, t, GeneratorCalls(s) + 1)]

\* The tapes the effect can tell apart: it calls Math.random() in the chaotic
\* and galaxy presets and when it perturbs.
EffectTapes ==
    IF GeneratorCalls(scenario) = 0 /\ ~shouldPerturb THEN {NoCalls} ELSE Tapes

\* useEffect(..., [scenario, key]): the effect and the commit of its
\* setBodies(newBodies); shouldPerturb.current = false.
InitBodiesEffect(t) ==
    /\ started /\ step = 0
    /\ effectPending
    /\ bodies' = NewBodies(scenario, shouldPerturb, t) \o queued
    /\ queued' = << >>
    /\ shouldPerturb' = FALSE
    /\ effectPending' = FALSE
    /\ meshPosition' = Positions(bodies')
    /\ generatedBy' = scenario
    /\ UNCHANGED <<moduleVars, started, scenario, key, controlVars, acceleration, step,
                   cameraTarget, ticks, ops>>

(**************************** the frame callback ***************************)

\* The base vectors with the live vectors written through: what a sub-step
\* would leave in them if the live bodies' vectors were the base vectors
\* themselves (no clone() on the way from the base arrays to the live list).
BaseAliased(base, written) ==
    [i \in DOMAIN base |->
        IF generatedBy = "figure8" /\ i <= Len(written) THEN written[i] ELSE base[i]]

\* The base vectors after a sub-step has written the live bodies' vectors
\* (written) in place.  No live vector is a base vector: getInitialBodies
\* clones each base vector before it scales it, and the effect clones the
\* descriptor's vectors again, so the writes reach no base vector.
BaseAfterWrite(base, written) == base

\* Two bodies of the list are at the same position.
Coincide(bs) ==
    \E i, j \in 1 .. Len(bs) : i < j /\ bs[i].position = bs[j].position

\* Two bodies of the list are closer than the sum of their collision radii.
Overlap(bs) ==
    \E i, j \in 1 .. Len(bs) :
        /\ i < j
        /\ LET minDist == OrZero(bs[i].collisionRadius) + OrZero(bs[j].collisionRadius)
           IN  LengthSq(VSub(bs[j].position, bs[i].position)) < minDist * minDist

\* The tapes a sub-step can tell apart.  It calls Math.random() only for a
\* pair of bodies at the same position: in the evaluator before or after the
\* drift, or in the resolver, where only a body of an overlapping pair moves.
\* Without such a pair the sub-step makes no call.
SubStepTapes ==
    LET b1 == KickDriftFrom(bodies,
                            InitialAccelerations(bodies, acceleration, gravity,
                                                 CollisionsEnabled, NoCalls),
                            Dt(timeScale), 1)
    IN  IF \/ Coincide(bodies)
           \/ Coincide(b1)
           \/ CollisionsEnabled /\ Overlap(b1)
        THEN Tapes ELSE {NoCalls}

\* One sub-step of the useFrame callback of SimulationLoop, which reads the
\* props of the last render.  The callback starts with its first sub-step.
SubStep(t) ==
    /\ started
    /\ step < SUB_STEPS
    /\ step = 0 => ticks < MaxTicks
    /\ \E r \in {SubStepResult(bodies, acceleration, gravity, timeScale,
                                CollisionsEnabled, t)} :
           /\ bodies' = r.bodies
           /\ acceleration' = r.acceleration
           /\ basePositions' = BaseAfterWrite(basePositions, Positions(r.bodies))
           /\ baseVelocities' = BaseAfterWrite(baseVelocities, Velocities(r.bodies))
    /\ step' = step + 1
    /\ UNCHANGED <<started, scenario, key, shouldPerturb, effectPending, queued,
                   controlVars, meshPosition, cameraTarget, generatedBy, ticks, ops>>

\* The position of the focused body: the last body whose id is focusedBodyId
\* (the prop is null for the option None), or target when there is none.
FocusedPos(bs, focus, target) ==
    LET hits == {i \in 1 .. Len(bs) : focus # 0 /\ bs[i].id = focus}
    IN  IF hits = {} THEN target
        ELSE bs[CHOOSE i \in hits : \A j \in hits : j <= i].position

\* The sync made inside the loop of sub-steps, after each of them.
SyncVisualsInLoop ==
    /\ started
    /\ step > 0
    /\ meshPosition' = Positions(bodies)
    /\ cameraTarget' =
         LET pos == FocusedPos(bodies, focusedBodyId, cameraTarget)
         IN  VAdd(cameraTarget, VDiv(VSub(pos, cameraTarget), U))
    /\ step' = IF step = SUB_STEPS THEN 0 ELSE step
    /\ ticks' = IF step = SUB_STEPS THEN ticks + 1 ELSE ticks
    /\ UNCHANGED <<moduleVars, started, scenario, key, bodies, shouldPerturb,
                   effectPending, queued, controlVars, acceleration, generatedBy, ops>>

\* "Sync Visuals & Camera", after the last sub-step: the meshes take the
\* bodies' positions and setCameraTarget does target.lerp(pos, 0.1); the
\* callback returns.
SyncVisuals ==
    /\ started
    /\ step = SUB_STEPS
    /\ meshPosition' = Positions(bodies)
    /\ cameraTarget' =
         LET pos == FocusedPos(bodies, focusedBodyId, cameraTarget)
         IN  VAdd(cameraTarget, VDiv(VSub(pos, cameraTarget), U))
    /\ step' = 0
    /\ ticks' = ticks + 1
    /\ UNCHANGED <<moduleVars, started, scenario, key, bodies, shouldPerturb, effectPending,
                   queued, controlVars, acceleration, generatedBy, ops>>

Next ==
    \/ Start
    \/ Exit
    \/ \E s \in ScenarioType : setScenario(s)
    \/ handleReset
    \/ handlePerturb
    \/ \E t \in Tapes : handleAddBody(t)
    \/ \E g \in Gravities : setGravity(g)
    \/ \E ts \in TimeScales : setTimeScale(ts)
    \/ \E f \in FocusOptions : setFocusedBodyId(f)
    \/ \E t \in EffectTapes : InitBodiesEffect(t)
    \/ \E t \in SubStepTapes : SubStep(t)
    \/ SyncVisuals

Spec == Init /\ [][Next]_vars

(***** the effect's map, one force pass and one resolver pass on a pair *****)

\* The second body's position (the first is at the origin): coincident,
\* overlapping on the x axis and off it, touching, just clear of contact, far
\* apart.
PairPositions ==
    {Vec(0, 0, 0), Vec(6, 0, 0), Vec(3, 4, 0), Vec(10, 0, 0), Vec(14, 0, 0), Vec(40, 0, 0)}

PairVelocities == {Vec(4, 0, 0), Vec(-4, 0, 0), Vec(0, 3, 0)}

\* collisionRadius as a descriptor can give it: 0, 0.5, absent.
PairRadii == {0, 5, Undefined}

PairMasses == {125, 250}

\* The two-body descriptor lists supplied to the effect.
PairInputs ==
    { << Body(1 * U, 125, ZeroVec, vA, "cyan", Undefined, rA),
         Body(2 * U, mB, pB, vB, "magenta", Undefined, rB) >> :
        vA \in PairVelocities, vB \in PairVelocities, pB \in PairPositions,
        rA \in PairRadii, rB \in PairRadii, mB \in PairMasses }

\* ThreeBodyScene is shown in a scenario with collisions enabled, and
\* getInitialBodies has returned a list of PairInputs to the effect.
InitPair ==
    /\ started = TRUE
    /\ scenario = "2body"
    /\ key = 0
    /\ bodies \in PairInputs
    /\ shouldPerturb = FALSE
    /\ effectPending = TRUE
    /\ queued = << >>
    /\ gravity = 30
    /\ timeScale = 4
    /\ focusedBodyId = 0
    /\ acceleration = EmptyMap
    /\ step = 0
    /\ meshPosition = << >>
    /\ cameraTarget = ZeroVec
    /\ generatedBy = "none"
    /\ ticks = 0
    /\ ops = 0
    /\ basePositions = FIGURE8_BASE_POSITIONS
    /\ baseVelocities = FIGURE8_BASE_VELOCITIES

\* initialData.map(...) of the effect on the supplied list.
PairEffect ==
    /\ effectPending
    /\ step = 0
    /\ bodies' = << MakeBody(bodies[1], 1, shouldPerturb, NoCalls, 1),
                    MakeBody(bodies[2], 2, shouldPerturb, NoCalls, 1) >>
    /\ effectPending' = FALSE
    /\ UNCHANGED <<moduleVars, started, scenario, key, shouldPerturb, queued, controlVars,
                   acceleration, step, meshPosition, cameraTarget, generatedBy,
                   ticks, ops>>

\* The tapes the resolver can tell apart on a pair: it calls Math.random()
\* for coincident bodies only.
PairTapes == IF Coincide(bodies) THEN Tapes ELSE {NoCalls}

\* resolveCollisions() once, as at the end of a sub-step, on the list as it is
\* (the descriptors as supplied, or the live bodies the effect made of them).
PairResolve(t) ==
    /\ step = 0
    /\ bodies' = resolveCollisions(bodies, CollisionsEnabled, t)
    /\ step' = 1
    /\ UNCHANGED <<moduleVars, started, scenario, key, shouldPerturb, effectPending, queued,
                   controlVars, acceleration, meshPosition, cameraTarget,
                   generatedBy, ticks, ops>>

\* The forEach and the first loop of a sub-step on the list as it is: every
\* body gets its slot, and calcAcceleration fills it.
PairAccelerate(t) ==
    /\ step = 0
    /\ acceleration = EmptyMap
    /\ acceleration' = InitialAccelerations(bodies, acceleration, gravity,
                                            CollisionsEnabled, t)
    /\ UNCHANGED <<moduleVars, started, scenario, key, bodies, shouldPerturb,
                   effectPending, queued, controlVars, step, meshPosition,
                   cameraTarget, generatedBy, ticks, ops>>

NextPair ==
    \/ PairEffect
    \/ \E t \in PairTapes : PairAccelerate(t)
    \/ \E t \in PairTapes : PairResolve(t)

SpecPair == InitPair /\ [][NextPair]_vars

(****** runs of a committed preset: ticks, G, added bodies, Exit, Start ******)

\* The presets that make no call of Math.random().
RunScenarios == {"figure8", "2body", "ternary"}

\* The calls of one handleAddBody that put a body of mass 14.9 at (15, 4, 0),
\* at rest: next to the first body of the two-body preset.
CloseCalls == <<500, 999, 875, 600, 500, 500, 500, 500, 500, 500>>

\* The calls of one handleAddBody that put a body of mass 10 at (0, 0, 16), at
\* rest: away from every body of the three presets.
ApartCalls == <<500, 500, 500, 500, 900, 500, 500, 500, 500, 500>>

\* The tapes of handleAddBody in a run.
RunTapes == {CloseCalls, ApartCalls}

\* ThreeBodyScene is shown, a preset has been chosen and the effect has
\* committed its list; no frame has been rendered yet.
InitRun ==
    /\ basePositions = FIGURE8_BASE_POSITIONS
    /\ baseVelocities = FIGURE8_BASE_VELOCITIES
    /\ started = TRUE
    /\ scenario \in RunScenarios
    /\ key = 0
    /\ bodies = NewBodies(scenario, FALSE, NoCalls)
    /\ shouldPerturb = FALSE
    /\ effectPending = FALSE
    /\ queued = << >>
    /\ gravity = 30
    /\ timeScale = 4
    /\ focusedBodyId = 0
    /\ acceleration = EmptyMap
    /\ step = 0
    /\ meshPosition = Positions(bodies)
    /\ cameraTarget = ZeroVec
    /\ generatedBy = scenario
    /\ ticks = 0
    /\ ops = 0

NextRun ==
    \/ Start
    \/ Exit
    \/ \E t \in RunTapes : handleAddBody(t)
    \/ \E g \in Gravities : setGravity(g)
    \/ \E t \in EffectTapes : InitBodiesEffect(t)
    \/ \E t \in SubStepTapes : SubStep(t)
    \/ SyncVisuals

SpecRun == InitRun /\ [][NextRun]_vars

(******************************** properties ******************************)

\* The acceleration the first half-kick of the next sub-step gives body i, and
\* the acceleration the evaluator returns for it now.
FirstKickAcc(bs, acc, g, enabled, i) ==
    InitialAccelerations(bs, acc, g, enabled, NoCalls)[bs[i].id]

FreshAcc(bs, g, enabled, i) == calcAcceleration(bs, i, g, enabled, NoCalls)

\* C1: at the start of every sub-step the acceleration of the first half-kick
\* of each body is the one the force evaluator returns for the current
\* positions, masses, G and collisionsEnabled.
C1_FirstKickIsFresh ==
    (started /\ step < SUB_STEPS) =>
        \A i \in 1 .. Len(bodies) :
            FirstKickAcc(bodies, acceleration, gravity, CollisionsEnabled, i)
                = FreshAcc(bodies, gravity, CollisionsEnabled, i)

\* A body of the list has a slot of the map that holds a non-zero vector: the
\* first loop of the next sub-step leaves it as it is.
HeldSlot(bs, acc) ==
    \E i \in 1 .. Len(bs) : bs[i].id \in DOMAIN acc /\ acc[bs[i].id] # ZeroVec

\* C2: no acceleration computed in one tick is used for a velocity update of a
\* later tick: when a tick starts (and its half-kicks move velocities, dt # 0)
\* no body has a slot filled by an earlier tick.
C2_NoAccelerationAcrossTicks ==
    [][(step = 0 /\ step' = 1 /\ Dt(timeScale) # 0) =>
          ~HeldSlot(bodies, acceleration)]_vars

RECURSIVE FirstKickPhase(_, _, _, _)
\* Phase 1 over the whole list: the first half-kick of every body from i on.
FirstKickPhase(bs, acc, dt, i) ==
    IF i > Len(bs) THEN bs
    ELSE FirstKickPhase([bs EXCEPT ![i].velocity = HalfKick(bs[i].velocity,
                                                            acc[bs[i].id], dt)],
                        acc, dt, i + 1)

RECURSIVE DriftPhase(_, _, _)
\* Phase 2 over the whole list: the drift of every body from i on with the
\* velocity it has.
DriftPhase(bs, dt, i) ==
    IF i > Len(bs) THEN bs
    ELSE DriftPhase([bs EXCEPT ![i].position = VAdd(bs[i].position,
                                                    VScale(bs[i].velocity, dt))],
                    dt, i + 1)

\* Phase 3 over the whole list: every slot of a body of the list holds the
\* acceleration the evaluator returns for the list bs as a whole (the last
\* body of an id fills the slot of that id); the other slots keep their value.
ReEvaluated(bs, old, g, enabled, t) ==
    [id \in DOMAIN old |->
        IF \E i \in 1 .. Len(bs) : bs[i].id = id
        THEN calcAcceleration(bs,
                              CHOOSE i \in 1 .. Len(bs) :
                                  /\ bs[i].id = id
                                  /\ \A j \in (i + 1) .. Len(bs) : bs[j].id # id,
                              g, enabled, t)
        ELSE old[id]]

\* The phases of a sub-step one after the other, each over the whole list:
\* the body list and the accelerations they leave.
Phased(t) ==
    LET dt      == Dt(timeScale)
        old     == InitialAccelerations(bodies, acceleration, gravity,
                                        CollisionsEnabled, t)
        kicked  == FirstKickPhase(bodies, old, dt, 1)
        drifted == DriftPhase(kicked, dt, 1)
        new     == ReEvaluated(drifted, old, gravity, CollisionsEnabled, t)
        kicked2 == FirstKickPhase(drifted, new, dt, 1)
    IN  [bodies |-> IF CollisionsEnabled THEN ResolveFrom(kicked2, 1, 2, t) ELSE kicked2,
         acceleration |-> new]

\* C3: a tick makes exactly SUB_STEPS sub-steps and then returns, and a
\* sub-step is the first half-kick of every body with the pre-drift
\* acceleration, the drift of every body, the re-evaluation of every
\* acceleration from the post-drift positions, the second half-kick with the
\* new accelerations, and then the resolver if and only if collisionsEnabled.
C3_TickShape ==
    [][/\ step' \in {step, step + 1, 0}
       /\ step' = step + 1 =>
            /\ step < SUB_STEPS
            /\ \E t \in Tapes : \E p \in {Phased(t)} :
                  bodies' = p.bodies /\ acceleration' = p.acceleration
       /\ (step' = 0 /\ step # 0) => step = SUB_STEPS]_vars

\* C3 witness: a tick with collisions enabled has made its SUB_STEPS sub-steps
\* and moved the bodies.
C3_TickMade ==
    /\ step = SUB_STEPS
    /\ CollisionsEnabled
    /\ Len(bodies) > 1
    /\ Positions(bodies) # meshPosition

\* The positions and velocities of a list.
PosVel(bs) == [i \in 1 .. Len(bs) |-> <<bs[i].position, bs[i].velocity>>]

\* C4: with timeScale 0 a sub-step of a tick leaves every position and every
\* velocity as it was (so any number of ticks does).
C4_FrozenAtTimeScaleZero ==
    [][(timeScale = 0 /\ step' = step + 1) => PosVel(bodies') = PosVel(bodies)]_vars

Cross(a, b) ==
    Vec(a[2] * b[3] - a[3] * b[2], a[3] * b[1] - a[1] * b[3], a[1] * b[2] - a[2] * b[1])

\* bodyA.collisionRadius ?? 0 plus bodyB.collisionRadius ?? 0 for a pair.
MinDist(bs) == OrZero(bs[1].collisionRadius) + OrZero(bs[2].collisionRadius)

\* The displacement from the first body of a pair to the second.
PairDiff(bs) == VSub(bs[2].position, bs[1].position)

\* The relative velocity of a pair (second minus first) along d, times |d|:
\* negative when the bodies approach along d.
ClosingAlong(bs, d) == Dot(VSub(bs[2].velocity, bs[1].velocity), d)

\* Two overlapping bodies of equal mass, each moving toward the other along
\* the line that joins their centres.
HeadOn(bs) ==
    /\ Len(bs) = 2
    /\ bs[1].mass = bs[2].mass
    /\ LengthSq(PairDiff(bs)) > 0
    /\ LengthSq(PairDiff(bs)) < MinDist(bs) * MinDist(bs)
    /\ Cross(bs[1].velocity, PairDiff(bs)) = ZeroVec
    /\ Cross(bs[2].velocity, PairDiff(bs)) = ZeroVec
    /\ Dot(bs[1].velocity, PairDiff(bs)) > 0
    /\ Dot(bs[2].velocity, PairDiff(bs)) < 0

\* C5: the resolver leaves a head-on pair of equal mass with the relative
\* velocity along the contact normal reversed and 0.8 times as large, and with
\* the centres at least radius_A + radius_B apart (up to two grid cells of
\* rounding).
C5_HeadOnBounce ==
    [][(step' = step + 1 /\ HeadOn(bodies)) =>
          LET d == PairDiff(bodies)
          IN  /\ ClosingAlong(bodies', d) > 0
              /\ Abs(U * ClosingAlong(bodies', d) + restitution * ClosingAlong(bodies, d))
                    <= U * 2 * Length(d)
              /\ Length(PairDiff(bodies')) >= MinDist(bodies) - 2]_vars

\* Both bodies of a pair have a collision radius that is not zero.
BothRadii(bs) ==
    /\ Len(bs) = 2
    /\ OrZero(bs[1].collisionRadius) > 0
    /\ OrZero(bs[2].collisionRadius) > 0

\* C6: after the resolver has run on two bodies with non-zero collision radii,
\* wherever they were (at the same position too), they are at least the sum
\* of their collision radii apart, up to two grid cells of rounding.
C6_SeparatedAfterResolve ==
    [][(step' = step + 1 /\ CollisionsEnabled /\ BothRadii(bodies)) =>
          Length(PairDiff(bodies')) >= MinDist(bodies) - 2]_vars

\* C7: the resolver neither moves nor kicks a body whose collisionRadius is 0,
\* whatever its partner, and the effect keeps a collisionRadius of 0 in the
\* live list.
C7_ZeroRadiusStaysOut ==
    [][/\ step' = step + 1 =>
            \A i \in 1 .. Len(bodies) :
                bodies[i].collisionRadius = 0 =>
                    /\ bodies'[i].position = bodies[i].position
                    /\ bodies'[i].velocity = bodies[i].velocity
       /\ (effectPending /\ ~effectPending') =>
            \A i \in 1 .. Len(bodies) :
                bodies[i].collisionRadius = 0 => bodies'[i].collisionRadius = 0]_vars

RECURSIVE MomentumFrom(_, _)
\* The sum of mass times velocity over the bodies from i on.
MomentumFrom(bs, i) ==
    IF i > Len(bs) THEN ZeroVec
    ELSE VAdd(VScale(bs[i].velocity, bs[i].mass), MomentumFrom(bs, i + 1))

Momentum(bs) == MomentumFrom(bs, 1)

\* The mass-weighted accelerations acc holds for the two bodies of a list are
\* equal and opposite.
Opposite(bs, acc) ==
    VAdd(VScale(acc[bs[1].id], bs[1].mass), VScale(acc[bs[2].id], bs[2].mass)) = ZeroVec

\* C8: on the list of the two-body preset with collisions disabled a sub-step
\* keeps the total momentum (so every number of ticks does, G fixed or not),
\* and in both half-kicks the mass-weighted accelerations of the two bodies
\* are equal and opposite.
C8_TwoBodyMomentum ==
    [][(step' = step + 1 /\ generatedBy = "2body" /\ Len(bodies) = 2
            /\ ~CollisionsEnabled) =>
          /\ Momentum(bodies') = Momentum(bodies)
          /\ Opposite(bodies, InitialAccelerations(bodies, acceleration, gravity,
                                                   CollisionsEnabled, NoCalls))
          /\ Opposite(bodies', acceleration')]_vars

\* The effect commits the list of a scenario other than the one that generated
\* the list it replaces.
SwitchCommitted ==
    /\ started /\ started'
    /\ effectPending /\ ~effectPending'
    /\ generatedBy \notin {"none", scenario}

\* C9: after a scenario switch a tick on the new list depends on the new
\* bodies and the current parameters alone: the first half-kick of every new
\* body uses the acceleration the evaluator returns for the new list, whatever
\* the ticks of the previous scenario left behind.
C9_NoCarryOver ==
    [][SwitchCommitted =>
          \A i \in 1 .. Len(bodies') :
              FirstKickAcc(bodies', acceleration', gravity', scenario' # "figure8", i)
                  = FreshAcc(bodies', gravity', scenario' # "figure8", i)]_vars

\* C10: while a tick runs on a list the figure-eight preset generated,
\* collisionsEnabled is false.
C10_FigureEightWithoutCollisions ==
    (step > 0 /\ generatedBy = "figure8") => ~CollisionsEnabled

\* target.lerp(pos, 0.1)
Lerp(target, pos) == VAdd(target, VDiv(VSub(pos, target), U))

\* C11: the meshes and the camera target, which are what the presentation
\* layer holds of the bodies, take the bodies' positions only after the last
\* of the SUB_STEPS sub-steps (its resolver included) and take them as that
\* sub-step left them; between two sub-steps nothing else happens, and apart
\* from that they change only while no frame callback is running.
C11_StableReads ==
    [][/\ (meshPosition' # meshPosition \/ cameraTarget' # cameraTarget) =>
            step \in {0, SUB_STEPS}
       /\ (step = SUB_STEPS /\ step' = 0) =>
            /\ bodies' = bodies
            /\ meshPosition' = Positions(bodies)
            /\ cameraTarget' \in
                 {cameraTarget} \cup {Lerp(cameraTarget, bodies[i].position) :
                                         i \in 1 .. Len(bodies)}
       /\ (0 < step /\ step < SUB_STEPS) =>
            /\ step' = step + 1
            /\ meshPosition' = meshPosition
            /\ cameraTarget' = cameraTarget]_vars

\* C11 witness: a frame callback has returned, the meshes are where the bodies
\* are and the camera target has moved toward the focused body.
C11_Synced ==
    /\ ticks > 0 /\ step = 0
    /\ Len(bodies) > 0
    /\ meshPosition = Positions(bodies)
    /\ cameraTarget # ZeroVec

\* What a tick must leave alone: the list with every position and velocity
\* blanked.
Static(bs) ==
    [i \in 1 .. Len(bs) |-> [bs[i] EXCEPT !.position = ZeroVec, !.velocity = ZeroVec]]

\* C12: a sub-step, and the sync that ends the tick, change positions and
\* velocities alone: the id, mass, collisionRadius, colour and radius of
\* every body and the length and order of the list are as before.
C12_TickFrame ==
    [][(step' = step + 1 \/ (step = SUB_STEPS /\ step' = 0)) =>
          Static(bodies') = Static(bodies)]_vars

\* C12 witness: a tick has moved a list that holds an added body.
C12_TickMoved ==
    /\ step = SUB_STEPS
    /\ Len(bodies) = 4
    /\ Positions(bodies) # meshPosition

\* C13: every body of the live list has a mass above zero, whatever scenario
\* selections, resets, perturbations, added bodies and ticks came before.
C13_PositiveMass == \A i \in 1 .. Len(bodies) : bodies[i].mass > 0

\* C13 witness: a tick has run on a galaxy list that holds a star (mass below
\* 1) and an added body.
C13_LightAndAdded ==
    /\ step = SUB_STEPS
    /\ generatedBy = "galaxy"
    /\ Len(bodies) = MaxStars + 2
    /\ \E i \in 1 .. Len(bodies) : bodies[i].mass < U

AddRequested == started /\ started' /\ ops' = ops + 1 /\ bodies' # bodies

\* C15: an added body is appended as the last body of the live list, and the
\* bodies that were there (with their ids, masses, positions, velocities and
\* collision radii), the scenario, the key and the pending effect are as before:
\* nothing is generated again or reset.
C15_AddAppendsOne ==
    [][AddRequested =>
          /\ Len(bodies') = Len(bodies) + 1
          /\ SubSeq(bodies', 1, Len(bodies)) = bodies
          /\ scenario' = scenario
          /\ key' = key
          /\ effectPending' = effectPending
          /\ shouldPerturb' = shouldPerturb
          /\ generatedBy' = generatedBy
          /\ acceleration' = acceleration]_vars

\* C15 witness: a body was added to a figure-eight list that ticks have moved
\* away from the preset.
C15_AddedToMovedList ==
    /\ step = 0 /\ ticks > 0 /\ ~effectPending
    /\ generatedBy = "figure8"
    /\ Len(bodies) = 4
    /\ Positions(bodies) = meshPosition
    /\ bodies[1].position # getInitialBodies("figure8", NoCalls)[1].position

\* The effect commits a generated list.
Generated == started' /\ effectPending /\ ~effectPending'

\* An offset d on the grid is within bound (in thousandths) of zero, up to the
\* half grid cell by which it is rounded.
OffsetWithin(d, bound) == 1000 * Abs(d) <= U * bound + 500

\* Body b is body p with each component of its position moved by at most 0.05
\* and each component of its velocity by at most 0.005.
Perturbed(b, p) ==
    /\ [b EXCEPT !.position = ZeroVec, !.velocity = ZeroVec]
          = [p EXCEPT !.position = ZeroVec, !.velocity = ZeroVec]
    /\ \A k \in 1 .. 3 :
          /\ OffsetWithin(b.position[k] - p.position[k], 50)
          /\ OffsetWithin(b.velocity[k] - p.velocity[k], 5)

Descriptor(bs) == [i \in 1 .. Len(bs) |-> <<bs[i].position, bs[i].velocity, bs[i].mass>>]

\* What the first call of the generator returns for a preset without random
\* parts: the literals of the two-body and ternary presets, and the base
\* figure-eight vectors as the module is loaded with them, scaled.
FirstResult(s) ==
    CASE s = "2body" ->
           << <<Vec(150, 0, 0), Vec(0, 8, 0), 200>>,
              <<Vec(-150, 0, 0), Vec(0, -8, 0), 200>> >>
      [] s = "ternary" ->
           << <<ZeroVec, ZeroVec, 1000>>,
              <<Vec(300, 0, 0), Vec(0, 0, 25), 100>>,
              <<Vec(330, 0, 0), Vec(0, 0, 40), 10>> >>
      [] OTHER ->
           [i \in 1 .. 3 |->
              << VDiv(VScale(FIGURE8_BASE_POSITIONS[i], FIGURE8_SCALE), 10000000),
                 VDiv(FIGURE8_BASE_VELOCITIES[i], FIGURE8_VELOCITY_SCALE * 100000),
                 1 * U >>]

C18_ResetRestarts ==
    [][/\ (key' = key + 1 /\ ~shouldPerturb') =>
            /\ scenario' = scenario
            /\ bodies' = bodies
            /\ effectPending'
            /\ acceleration' = EmptyMap
       /\ (Generated /\ ~shouldPerturb) =>
            /\ generatedBy' = scenario
            /\ \E t \in EffectTapes :
                  \E p \in {NewBodies(scenario, FALSE, t)} :
                     SubSeq(bodies', 1, Len(p)) = p
            /\ scenario \in {"figure8", "2body", "ternary"} =>
                  Descriptor(SubSeq(bodies', 1, Len(FirstResult(scenario))))
                      = FirstResult(scenario)]_vars

\* C18 witness: a two-body list that a tick had moved has been reset: the
\* list is the preset's and the acceleration map is empty.
C18_ResetDone ==
    /\ key > 0 /\ ticks > 0 /\ step = 0
    /\ ~effectPending
    /\ generatedBy = "2body"
    /\ Descriptor(bodies) = FirstResult("2body")
    /\ acceleration = EmptyMap

\* The component p of a generated position is the base component b (in units
\* of 10^-8) times FIGURE8_SCALE, to half a grid cell.
ScaledPosition(p, b) == Abs(p * 10000000 - b * FIGURE8_SCALE) <= 5000000

\* The component v of a generated velocity is the base component b (in units
\* of 10^-9) divided by the square root of FIGURE8_SCALE, to half a grid
\* cell: the squares are compared, with b in units of 10^-4.
ScaledVelocity(v, b) ==
    LET c == RDiv(b, 100000)
    IN  /\ v * c >= 0
        /\ 4 * c * c <= (2 * Abs(v) + 1) * (2 * Abs(v) + 1) * FIGURE8_SCALE * 1000000
        /\ v # 0 =>
              (2 * Abs(v) - 1) * (2 * Abs(v) - 1) * FIGURE8_SCALE * 1000000 <= 4 * c * c

RECURSIVE MassPositionFrom(_, _)
\* The sum of mass times position over the bodies from i on.
MassPositionFrom(bs, i) ==
    IF i > Len(bs) THEN ZeroVec
    ELSE VAdd(VScale(bs[i].position, bs[i].mass), MassPositionFrom(bs, i + 1))

\* C19: the figure-eight preset returns three bodies of mass 1 whose
\* positions are the literal base positions times 6 and whose velocities are
\* the literal base velocities divided by the square root of 6, with total
\* momentum zero and the centre of mass at the origin.
C19_FigureEightPreset ==
    LET d == getInitialBodies("figure8", NoCalls)
    IN  /\ Len(d) = 3
        /\ \A i \in 1 .. Len(d) :
              /\ d[i].mass = 1 * U
              /\ \A k \in 1 .. 3 :
                    /\ ScaledPosition(d[i].position[k], FIGURE8_BASE_POSITIONS[i][k])
                    /\ ScaledVelocity(d[i].velocity[k], FIGURE8_BASE_VELOCITIES[i][k])
        /\ Momentum(d) = ZeroVec
        /\ MassPositionFrom(d, 1) = ZeroVec

\* C19 witness: the live list is the figure-eight preset as generated, at
\* rest as a whole.
C19_FigureEightLive ==
    /\ step = 0 /\ ticks = 0 /\ key = 0
    /\ ~effectPending
    /\ generatedBy = "figure8" /\ Len(bodies) = 3
    /\ PosVel(bodies) = PosVel(getInitialBodies("figure8", NoCalls))
    /\ Momentum(bodies) = ZeroVec

\* Two overlapping bodies, not coincident, each moving along the line that
\* joins their centres, and moving apart along it.
Separating(bs) ==
    /\ Len(bs) = 2
    /\ LengthSq(PairDiff(bs)) > 0
    /\ LengthSq(PairDiff(bs)) < MinDist(bs) * MinDist(bs)
    /\ Cross(bs[1].velocity, PairDiff(bs)) = ZeroVec
    /\ Cross(bs[2].velocity, PairDiff(bs)) = ZeroVec
    /\ ClosingAlong(bs, PairDiff(bs)) > 0

\* C21: for two overlapping bodies that are moving apart along the line that
\* joins their centres the resolver corrects the positions (the centres end
\* at least radius_A + radius_B apart, up to two grid cells of rounding) and
\* leaves both velocities as they were.
C21_SeparatingKeepsVelocity ==
    [][(step' = step + 1 /\ CollisionsEnabled /\ Separating(bodies)) =>
          /\ Length(PairDiff(bodies')) >= MinDist(bodies) - 2
          /\ Velocities(bodies') = Velocities(bodies)]_vars

\* The resolver finds the pair overlapping and not coincident:
\* 0 < dist < radius_A + radius_B.
Overlapping(bs) ==
    /\ Len(bs) = 2
    /\ Length(PairDiff(bs)) > 0
    /\ Length(PairDiff(bs)) < MinDist(bs)

\* C22: the resolver moves the first body of an overlapping pair against the
\* normal and the second along it by the same vector, half the penetration
\* long, whatever the masses: the midpoint stays where it was, the positions
\* are those the resolver leaves for every other mass of the second body, and
\* the centres end radius_A + radius_B apart (lengths up to two grid cells of
\* rounding).
C22_CorrectionIsSymmetric ==
    [][(step' = step + 1 /\ CollisionsEnabled /\ Overlapping(bodies)) =>
          LET d     == PairDiff(bodies)
              moveA == VSub(bodies'[1].position, bodies[1].position)
              moveB == VSub(bodies'[2].position, bodies[2].position)
          IN  /\ VAdd(moveA, moveB) = ZeroVec
              /\ Dot(moveB, d) > 0
              /\ Abs(2 * Length(moveB) - (MinDist(bodies) - Length(d))) <= 2
              /\ Abs(Length(PairDiff(bodies')) - MinDist(bodies)) <= 2
              /\ \A m \in PairMasses :
                    Positions(resolveCollisions([bodies EXCEPT ![2].mass = m],
                                                CollisionsEnabled, NoCalls))
                        = Positions(bodies')]_vars

\* C22 witness: the resolver has run on an overlapping pair of unequal masses:
\* the midpoint is the one the pair had, the first body has left the origin
\* and the centres are the sum of the radii apart.
C22_PairCorrected ==
    /\ step = 1
    /\ Len(bodies) = 2
    /\ bodies[1].mass # bodies[2].mass
    /\ VAdd(bodies[1].position, bodies[2].position) \in {Vec(6, 0, 0), Vec(3, 4, 0)}
    /\ bodies[1].position # ZeroVec
    /\ Abs(Length(PairDiff(bodies)) - MinDist(bodies)) <= 2

\* The term the second body of a pair adds to the acceleration of the first
\* (i = 1), or the first to that of the second (i = 2), were the two exactly
\* the contact distance apart in the direction they are in.
AtContact(bs, i, g) ==
    LET d == IF i = 1 THEN PairDiff(bs) ELSE VSub(ZeroVec, PairDiff(bs))
    IN  ScaleByInverseCube(Rescale(d, Length(d), MinDist(bs)), g * bs[3 - i].mass,
                           MinDist(bs) * MinDist(bs) + softening * softening)

\* C23: with collisions enabled the acceleration one body of a live pair gives
\* the other is never larger than it is at the contact distance
\* radius_A + radius_B (up to one grid cell of rounding), whatever the
\* separation, and below the contact distance it is the acceleration at the
\* contact distance.
C23_ClampedAtContact ==
    [][(acceleration = EmptyMap /\ acceleration' # EmptyMap /\ CollisionsEnabled
            /\ ~effectPending /\ Len(bodies) = 2 /\ MinDist(bodies) > 0
            /\ LengthSq(PairDiff(bodies)) > 0) =>
          \A i \in 1 .. 2 :
              /\ Length(acceleration'[bodies[i].id])
                    <= Length(AtContact(bodies, i, gravity)) + 1
              /\ Length(PairDiff(bodies)) < MinDist(bodies) =>
                    acceleration'[bodies[i].id] = AtContact(bodies, i, gravity)]_vars

\* C26: when the resolver changes the velocities of a pair, the changes of
\* momentum of the two bodies are equal and opposite, whatever the two masses:
\* mass_A * dv_A + mass_B * dv_B is zero on every axis up to the rounding of
\* the two velocities to the grid (half a cell each), exactly zero change of
\* velocity sum for equal masses, so the resolver keeps the total momentum.
C26_ImpulseKeepsMomentum ==
    [][(step' = step + 1 /\ Len(bodies) = 2
            /\ Velocities(bodies') # Velocities(bodies)) =>
          LET dvA == VSub(bodies'[1].velocity, bodies[1].velocity)
              dvB == VSub(bodies'[2].velocity, bodies[2].velocity)
              dp  == VSub(Momentum(bodies'), Momentum(bodies))
          IN  /\ bodies'[1].mass = bodies[1].mass /\ bodies'[2].mass = bodies[2].mass
              /\ dp = VAdd(VScale(dvA, bodies[1].mass), VScale(dvB, bodies[2].mass))
              /\ \A k \in 1 .. 3 : 2 * Abs(dp[k]) <= bodies[1].mass + bodies[2].mass
              /\ bodies[1].mass = bodies[2].mass => dp = ZeroVec
              /\ Dot(dvA, dvB) < 0]_vars

\* C26 witness: the resolver has kicked a pair of unequal masses: the first
\* body has a velocity no input gives it.
C26_PairKicked ==
    /\ step = 1
    /\ Len(bodies) = 2
    /\ bodies[1].mass # bodies[2].mass
    /\ bodies[1].velocity \notin PairVelocities
    /\ bodies[2].velocity \notin PairVelocities

\* The displacement the force evaluator and the resolver work with for the
\* bodies i and j of a list: the random one for exactly coincident bodies.
Displacement(bs, i, j, t) ==
    LET d == VSub(bs[j].position, bs[i].position)
    IN  IF LengthSq(d) = 0 THEN DegenerateDiff(t, i, j, Len(bs)) ELSE d

\* A number the arithmetic of a tick has produced is a finite one.
FiniteVec(v) == \A k \in 1 .. 3 : v[k] \in Int

\* C24: in every state of a run, coincident bodies included and whatever
\* Math.random() returns, the next sub-step divides by no zero: for every
\* two bodies the force denominator is at least softening^3 (its base at
\* least softening^2 and the root of the base at least softening), the
\* resolver's divisor of the collision normal is not zero and the inverse of
\* every mass exists; every position, velocity and acceleration is a finite
\* number, and a tick is never beyond its last sub-step.
C24_NoZeroDivisor ==
    started =>
        /\ step \in 0 .. SUB_STEPS
        /\ \A i \in 1 .. Len(bodies) :
              /\ bodies[i].mass > 0
              /\ FiniteVec(bodies[i].position)
              /\ FiniteVec(bodies[i].velocity)
        /\ \A id \in DOMAIN acceleration : FiniteVec(acceleration[id])
        /\ \A i, j \in 1 .. Len(bodies) :
              i # j =>
                 \A t \in IF bodies[i].position = bodies[j].position
                          THEN Tapes ELSE {NoCalls} :
                    LET d == Displacement(bodies, i, j, t)
                        x == LengthSq(d) + softening * softening
                    IN  /\ x >= softening * softening
                        /\ Sqrt(x) >= softening
                        /\ OrOne(Length(d)) # 0

\* C24 witness: a tick with collisions enabled has made all its sub-steps on
\* a list with two bodies at the same position, for which Math.random() gave
\* 0.5 three times (a zero displacement again).
C24_CoincidentTickDone ==
    /\ step = SUB_STEPS
    /\ CollisionsEnabled
    /\ \E i, j \in 1 .. Len(bodies) :
          /\ i < j
          /\ bodies[i].position = bodies[j].position
          /\ Displacement(bodies, i, j, NoCalls) = ZeroVec

RECURSIVE PairsFrom(_, _, _)
\* The unordered pairs of 1 .. n as <<i, j>> with i < j, in index order, from
\* the pair (i, j) on.
PairsFrom(n, i, j) ==
    IF i >= n THEN << >>
    ELSE IF j > n THEN PairsFrom(n, i + 1, i + 2)
    ELSE << <<i, j>> >> \o PairsFrom(n, i, j + 1)

\* The list after the pair p has been examined: as it was when the two bodies
\* are at least the sum of their collision radii apart at that moment.
ExaminePair(bs, p, t) ==
    LET d    == Displacement(bs, p[1], p[2], t)
        minD == OrZero(bs[p[1]].collisionRadius) + OrZero(bs[p[2]].collisionRadius)
    IN  IF Length(d) >= minD THEN bs ELSE ResolvePair(bs, p[1], p[2], t)

RECURSIVE SinglePass(_, _, _, _)
\* One pass over the pairs from the k-th on, each examined once.
SinglePass(bs, pairs, k, t) ==
    IF k > Len(pairs) THEN bs
    ELSE SinglePass(ExaminePair(bs, pairs[k], t), pairs, k + 1, t)

\* The list a sub-step hands to the resolver: after the second half-kick.
BeforeResolve(t) ==
    LET dt   == Dt(timeScale)
        acc1 == InitialAccelerations(bodies, acceleration, gravity, CollisionsEnabled, t)
        b1   == KickDriftFrom(bodies, acc1, dt, 1)
    IN  SecondKickFrom(b1, acceleration', dt, 1)

\* C25: in a sub-step with collisions enabled the resolver leaves the list of
\* one pass over the unordered pairs (i < j) in index order, each examined
\* once, a pair whose bodies are at least the sum of their collision radii
\* apart when it is examined being left as it is; it leaves the whole list as
\* it was when no pair overlaps.
C25_SinglePassInOrder ==
    [][(step' = step + 1 /\ CollisionsEnabled) =>
          \E t \in Tapes : \E b \in {BeforeResolve(t)} :
              /\ Len(PairsFrom(Len(b), 1, 2)) * 2 = Len(b) * (Len(b) - 1)
              /\ bodies' = SinglePass(b, PairsFrom(Len(b), 1, 2), 1, t)
              /\ (~Overlap(b) /\ ~Coincide(b)) => bodies' = b]_vars

\* C25 witness: a tick with collisions enabled has run on a list of three or
\* more bodies in which the resolver had two pairs that share a body to push
\* apart: no two bodies are at one point, and one of them has two others
\* within a grid cell or two of the sum of the radii.
C25_ThreePushedApart ==
    /\ step > 0
    /\ CollisionsEnabled
    /\ ~Coincide(bodies)
    /\ \E i, j, k \in 1 .. Len(bodies) :
          /\ i # j /\ i # k /\ j < k
          /\ Length(VSub(bodies[j].position, bodies[i].position))
                <= OrZero(bodies[i].collisionRadius) + OrZero(bodies[j].collisionRadius) + 2
          /\ Length(VSub(bodies[k].position, bodies[i].position))
                <= OrZero(bodies[i].collisionRadius) + OrZero(bodies[k].collisionRadius) + 2

RECURSIVE WeightedFrom(_, _, _)
\* The sum of mass times acceleration over the bodies from i on, acc holding
\* the acceleration of each id.
WeightedFrom(bs, acc, i) ==
    IF i > Len(bs) THEN ZeroVec
    ELSE VAdd(VScale(acc[bs[i].id], bs[i].mass), WeightedFrom(bs, acc, i + 1))

\* The masses of a list added up.
TotalMass(bs) == Momentum([i \in 1 .. Len(bs) |-> [mass |-> bs[i].mass,
                                                    velocity |-> Vec(1, 0, 0)]])[1]

\* The mass-weighted accelerations acc gives the bodies of a list sum to zero
\* on every axis, up to the rounding of each pair's two terms to the grid (half
\* a cell for each body of each pair).
Balanced(bs, acc) ==
    \A k \in 1 .. 3 :
        2 * Abs(WeightedFrom(bs, acc, 1)[k]) <= (Len(bs) - 1) * TotalMass(bs)

\* The list is the one a preset generated, with at most one added body.
OneAddedAtMost(bs) ==
    /\ generatedBy \in RunScenarios
    /\ Len(bs) <= Len(getInitialBodies(generatedBy, NoCalls)) + 1

\* C27: a sub-step of a tick on a list with no two bodies at one point (a
\* preset's list, with one added body at most), in a run of ticks, changes of
\* G and added bodies, keeps the total momentum, and in both its half-kicks
\* the mass-weighted accelerations applied to the bodies sum to zero (up to
\* the rounding of the grid).
C27_TickKeepsMomentum ==
    [][(step' = step + 1 /\ ~effectPending /\ Len(bodies) > 1
            /\ OneAddedAtMost(bodies)
            /\ ~Coincide(bodies) /\ ~Coincide(bodies')) =>
          /\ Balanced(bodies, InitialAccelerations(bodies, acceleration, gravity,
                                                   CollisionsEnabled, NoCalls))
          /\ Balanced(bodies', acceleration')
          /\ \A k \in 1 .. 3 :
                2 * Abs(Momentum(bodies')[k] - Momentum(bodies)[k])
                    <= (Dt(timeScale) + 2) * Len(bodies) * TotalMass(bodies)]_vars

\* No scene exists: no body list, no pending effect, no acceleration, no mesh
\* and no frame callback.
NoScene(bs, pending, q, acc, mesh, by, st) ==
    /\ bs = << >> /\ ~pending /\ q = << >> /\ acc = EmptyMap /\ mesh = << >>
    /\ by = "none" /\ st = 0

\* C28: the scene exists exactly while the app is started.  Start is the only
\* step from the landing page and mounts a scene in the figure-eight scenario
\* with key 0, no bodies yet, no stored acceleration and its effect pending;
\* Exit Simulation leaves no scene; and the first list a run commits is the
\* figure-eight preset as generated (followed by the bodies added in this run
\* only), whatever scenario, list or added body the run before had.
C28_StartIsFresh ==
    [][/\ ~started =>
            /\ NoScene(bodies, effectPending, queued, acceleration, meshPosition,
                       generatedBy, step)
            /\ started' /\ ops' = ops + 1
       /\ (~started /\ started') =>
            /\ scenario' = "figure8" /\ key' = 0 /\ ~shouldPerturb'
            /\ effectPending' /\ step' = 0
            /\ NoScene(bodies', FALSE, queued', acceleration', meshPosition',
                       generatedBy', step')
       /\ (started /\ ~started') =>
            NoScene(bodies', effectPending', queued', acceleration', meshPosition',
                    generatedBy', step')
       /\ (Generated /\ generatedBy = "none") =>
            /\ scenario = "figure8" /\ generatedBy' = "figure8"
            /\ Descriptor(SubSeq(bodies', 1, 3)) = FirstResult("figure8")
            /\ SubSeq(bodies', 4, Len(bodies')) = queued]_vars

\* C28 witness: after a run that rendered a frame, Exit and Start, the new
\* scene has committed its first list: the figure-eight preset as generated,
\* with no acceleration stored yet.
C28_StartedAgain ==
    /\ started /\ ~effectPending
    /\ ticks > 0 /\ ops >= 2
    /\ acceleration = EmptyMap
    /\ scenario = "figure8" /\ generatedBy = "figure8"
    /\ PosVel(bodies) = PosVel(getInitialBodies("figure8", NoCalls))

=============================================================================
